---- MODULE Spec2Model ----
(***************************************************************************)
(* Model of fnm's configuration layer (src/config.rs): the FnmConfig       *)
(* value, the base-directory fallback chain and the derived directories,   *)
(* run against a small filesystem.                                         *)
(***************************************************************************)
EXTENDS Integers, Sequences, FiniteSets, TLC

VARIABLES
    cfg,      \* the FnmConfig value of the invocation(s)
    ctor,     \* how cfg was built: "default", "with_base_dir" or "from_args"
    env,      \* what dirs::home_dir() and dirs::data_dir() answer
    fs,       \* the filesystem: path -> kind
    last,     \* the latest completed call of the sequential invocation
    prev,     \* the call before it
    ncalls,   \* number of calls made so far
    procs,    \* concurrent invocations: per process, its position in its call
    fs0       \* the filesystem the concurrent invocations started from

vars == <<cfg, ctor, env, fs, last, prev, ncalls, procs, fs0>>

(***************************************************************************)
(* Bounds                                                                  *)
(***************************************************************************)
MaxCalls == 2
NProcs == 2

(***************************************************************************)
(* Option<T>                                                               *)
(***************************************************************************)
None == [some |-> FALSE, val |-> <<>>]
Some(v) == [some |-> TRUE, val |-> v]

(***************************************************************************)
(* Paths are sequences of components below the root <<>>.                  *)
(***************************************************************************)
join(p, name) == Append(p, name)

parent(p) == SubSeq(p, 1, Len(p) - 1)

HomePath == <<"home">>
DataPath == <<"data", "share">>
OverridePath == <<"tmp", "fnmtest">>

Bases == {join(HomePath, ".fnm"), join(DataPath, "fnm"), OverridePath}

Leaves ==
    UNION {{join(b, "node-versions"), join(join(b, "aliases"), "default")} : b \in Bases}

AllPaths == UNION {{SubSeq(p, 1, n) : n \in 1..Len(p)} : p \in Leaves}

starts_with(p, base) ==
    /\ Len(base) <= Len(p)
    /\ SubSeq(p, 1, Len(base)) = base

(***************************************************************************)
(* Filesystem.  A path is absent ("none"), a directory the user may write  *)
(* in ("dir"), a directory the user may not write in ("dir_ro"), or a      *)
(* regular file ("file").  The root is a writable directory.               *)
(***************************************************************************)
Kinds == {"none", "dir", "dir_ro", "file"}

kind(f, p) ==
    IF p = <<>> THEN "dir"
    ELSE IF p \in DOMAIN f THEN f[p]
    ELSE "none"

exists(f, p) == kind(f, p) # "none"

is_dir(f, p) == kind(f, p) \in {"dir", "dir_ro"}

WellFormed(f) ==
    \A p \in AllPaths : exists(f, p) => is_dir(f, parent(p))

\* Walks the components of p the way the kernel resolves a directory path.
RECURSIVE lookup_dir(_, _)
lookup_dir(f, p) ==
    IF p = <<>> THEN "ok"
    ELSE LET up == lookup_dir(f, parent(p)) IN
         IF up # "ok" THEN up
         ELSE IF kind(f, p) = "none" THEN "ENOENT"
         ELSE IF kind(f, p) = "file" THEN "ENOTDIR"
         ELSE "ok"

\* mkdir(2): one directory, no parents.
mkdir(f, p) ==
    IF p = <<>> THEN [fs |-> f, err |-> "EEXIST"]
    ELSE IF lookup_dir(f, parent(p)) # "ok"
        THEN [fs |-> f, err |-> lookup_dir(f, parent(p))]
    ELSE IF exists(f, p) THEN [fs |-> f, err |-> "EEXIST"]
    ELSE IF kind(f, parent(p)) = "dir_ro" THEN [fs |-> f, err |-> "EACCES"]
    ELSE [fs |-> [f EXCEPT ![p] = "dir"], err |-> "ok"]

\* Creates p and its missing parents; an existing directory is success.
RECURSIVE create_dir_all(_, _)
create_dir_all(f, p) ==
    LET first == mkdir(f, p) IN
    IF first.err = "ok" THEN first
    ELSE IF first.err # "ENOENT"
        THEN (IF is_dir(f, p) THEN [fs |-> f, err |-> "ok"] ELSE first)
    ELSE LET up == create_dir_all(f, parent(p)) IN
         IF up.err # "ok" THEN up
         ELSE LET second == mkdir(up.fs, p) IN
              IF second.err = "ok" THEN second
              ELSE IF is_dir(up.fs, p) THEN [fs |-> up.fs, err |-> "ok"]
              ELSE second

(***************************************************************************)
(* Results of a call: the returned path, how it ended, the filesystem it   *)
(* left.  "panic_no_data_dir" is expect("Can't get data directory");       *)
(* "fatal_create" is a directory-creation failure.                         *)
(***************************************************************************)
NoPath == <<"<no path>">>

Returned(p, f) == [ret |-> p, status |-> "ok", fs |-> f]

Aborted(how, f) == [ret |-> NoPath, status |-> how, fs |-> f]

\* PathExt::ensure_exists_silently, as a mutant that swallows the failure.
ensure_exists_ignoring_errors(f, p) ==
    Returned(p, create_dir_all(f, p).fs)

\* PathExt::ensure_exists_silently: creates the directory (and parents) if
\* absent, returns the path; a failure other than already-exists is fatal.
ensure_exists_silently(f, p) ==
    LET r == create_dir_all(f, p) IN
    IF r.err = "ok" THEN Returned(p, r.fs) ELSE Aborted("fatal_create", r.fs)

(***************************************************************************)
(* Url.  A text is a sequence of characters; Url::parse splits it into     *)
(* scheme, host and path, and two Urls are equal when all three agree.     *)
(***************************************************************************)
\* "https://nodejs.org/dist", the structopt default_value of the mirror
MirrorDefaultValue ==
    <<"h", "t", "t", "p", "s", ":", "/", "/", "n", "o", "d", "e", "j", "s", ".", "o", "r", "g", "/", "d", "i", "s", "t">>

\* "https://nodejs.org/dist/", the literal parsed by Default::default()
MirrorDefaultImplLiteral ==
    <<"h", "t", "t", "p", "s", ":", "/", "/", "n", "o", "d", "e", "j", "s", ".", "o", "r", "g", "/", "d", "i", "s", "t", "/">>

\* Index of the first c in s at or after position from, 0 if there is none.
RECURSIVE find(_, _, _)
find(s, c, from) ==
    IF from > Len(s) THEN 0
    ELSE IF s[from] = c THEN from
    ELSE find(s, c, from + 1)

Url_parse(s) ==
    LET colon == find(s, ":", 1) IN
    IF \/ colon <= 1
       \/ colon + 2 > Len(s)
       \/ s[colon + 1] # "/"
       \/ s[colon + 2] # "/"
    THEN [ok |-> FALSE, scheme |-> <<>>, host |-> <<>>, path |-> <<>>]
    ELSE LET slash == find(s, "/", colon + 3)
             hostEnd == IF slash = 0 THEN Len(s) ELSE slash - 1
         IN  IF hostEnd < colon + 3
             THEN [ok |-> FALSE, scheme |-> <<>>, host |-> <<>>, path |-> <<>>]
             ELSE [ok |-> TRUE,
                   scheme |-> SubSeq(s, 1, colon - 1),
                   host |-> SubSeq(s, colon + 3, hostEnd),
                   path |-> IF slash = 0 THEN <<"/">>
                            ELSE SubSeq(s, slash, Len(s))]

Url_as_str(u) == u.scheme \o <<":", "/", "/">> \o u.host \o u.path

(***************************************************************************)
(* FnmConfig                                                               *)
(***************************************************************************)
LogLevel_from_str(s) ==
    CASE s = "quiet" -> "Quiet"
      [] s = "error" -> "Error"
      [] s = "info" -> "Info"
      [] OTHER -> "Invalid"

VersionFileStrategy_from_str(s) ==
    CASE s = "local" -> "Local"
      [] s = "recursive" -> "Recursive"
      [] OTHER -> "Invalid"

VersionFileStrategy_default == "Local"

\* impl Default for FnmConfig
FnmConfig_default ==
    [node_dist_mirror |-> Url_parse(MirrorDefaultImplLiteral),
     base_dir |-> None,
     multishell_path |-> None,
     log_level |-> "Info",
     version_file_strategy |-> VersionFileStrategy_default]

\* One source of a setting: the flag wins over the environment variable,
\* which wins over the default_value.
resolve_setting(flag, envvar, default) ==
    IF flag.some THEN flag
    ELSE IF envvar.some THEN envvar
    ELSE default

\* The structopt-derived constructor, for the settings given on the command
\* line (flag_*) and in the environment (env_*).
FnmConfig_from_args(a) ==
    [node_dist_mirror |->
        Url_parse(resolve_setting(a.flag_mirror, a.env_mirror,
                                  Some(MirrorDefaultValue)).val),
     base_dir |-> resolve_setting(a.flag_dir, a.env_dir, None),
     multishell_path |-> None,
     log_level |-> LogLevel_from_str("info"),
     version_file_strategy |-> VersionFileStrategy_from_str("local")]

with_base_dir(c, base_dir) == [c EXCEPT !.base_dir = base_dir]

NoArgs ==
    [flag_mirror |-> None, env_mirror |-> None, flag_dir |-> None, env_dir |-> None]

ArgChoices ==
    {NoArgs,
     [NoArgs EXCEPT !.flag_dir = Some(OverridePath)],
     [NoArgs EXCEPT !.env_dir = Some(OverridePath)]}

\* dirs::home_dir() and the legacy location under it
home_dir(e) == e.home

data_dir(e) == e.data

legacy_path(e) ==
    IF home_dir(e).some THEN Some(join(home_dir(e).val, ".fnm")) ELSE None

modern_path(e) ==
    IF data_dir(e).some THEN Some(join(data_dir(e).val, "fnm")) ELSE None

(***************************************************************************)
(* Directory resolution                                                    *)
(***************************************************************************)
\* legacy = home_dir().map(|dir| dir.join(".fnm")).filter(|dir| dir.exists())
legacy_if_exists(e, f) ==
    IF legacy_path(e).some /\ exists(f, legacy_path(e).val)
    THEN legacy_path(e) ELSE None

\* The base directory a completed call's result lies under.
base_of(call) ==
    CASE call.op = "base_dir_with_default" -> call.ret
      [] call.op = "default_version_dir" -> parent(parent(call.ret))
      [] OTHER -> parent(call.ret)

\* Mutant: the override is materialised like the modern directory.
base_dir_creating_override(c, e, f) ==
    IF c.base_dir.some THEN ensure_exists_silently(f, c.base_dir.val)
    ELSE LET legacy == legacy_if_exists(e, f)
             modern == modern_path(e)
         IN  IF legacy.some THEN Returned(legacy.val, f)
             ELSE IF ~modern.some THEN Aborted("panic_no_data_dir", f)
             ELSE ensure_exists_silently(f, modern.val)

\* Mutant: an existing modern directory is preferred to the legacy one.
base_dir_modern_first(c, e, f) ==
    IF c.base_dir.some THEN Returned(c.base_dir.val, f)
    ELSE LET legacy == legacy_if_exists(e, f)
             modern == modern_path(e)
         IN  IF modern.some /\ exists(f, modern.val) THEN Returned(modern.val, f)
             ELSE IF legacy.some THEN Returned(legacy.val, f)
             ELSE IF ~modern.some THEN Aborted("panic_no_data_dir", f)
             ELSE ensure_exists_silently(f, modern.val)

\* Mutant: the modern directory is returned without being created.
base_dir_no_create(c, e, f) ==
    IF c.base_dir.some THEN Returned(c.base_dir.val, f)
    ELSE LET legacy == legacy_if_exists(e, f)
             modern == modern_path(e)
         IN  IF legacy.some THEN Returned(legacy.val, f)
             ELSE IF ~modern.some THEN Aborted("panic_no_data_dir", f)
             ELSE Returned(modern.val, f)

\* Mutant: unwrap_or_default() in place of expect(): the empty path.
base_dir_empty_fallback(c, e, f) ==
    IF c.base_dir.some THEN Returned(c.base_dir.val, f)
    ELSE LET legacy == legacy_if_exists(e, f)
             modern == modern_path(e)
         IN  IF legacy.some THEN Returned(legacy.val, f)
             ELSE IF ~modern.some THEN ensure_exists_silently(f, <<>>)
             ELSE ensure_exists_silently(f, modern.val)

\* Mutant: without a data directory the legacy location is created and used.
base_dir_legacy_fallback(c, e, f) ==
    IF c.base_dir.some THEN Returned(c.base_dir.val, f)
    ELSE LET legacy == legacy_if_exists(e, f)
             modern == modern_path(e)
         IN  IF legacy.some THEN Returned(legacy.val, f)
             ELSE IF ~modern.some
                 THEN (IF legacy_path(e).some
                       THEN ensure_exists_silently(f, legacy_path(e).val)
                       ELSE Aborted("panic_no_data_dir", f))
             ELSE ensure_exists_silently(f, modern.val)

\* Mutant: the base directory resolved by the previous call is remembered.
base_dir_cached(c, e, f) ==
    IF c.base_dir.some THEN Returned(c.base_dir.val, f)
    ELSE IF last.status = "ok" THEN Returned(base_of(last), f)
    ELSE LET legacy == legacy_if_exists(e, f)
             modern == modern_path(e)
         IN  IF legacy.some THEN Returned(legacy.val, f)
             ELSE IF ~modern.some THEN Aborted("panic_no_data_dir", f)
             ELSE ensure_exists_silently(f, modern.val)

base_dir_with_default(c, e, f) ==
    IF c.base_dir.some THEN Returned(c.base_dir.val, f)
    ELSE LET legacy == legacy_if_exists(e, f)
             modern == modern_path(e)
         IN  IF legacy.some THEN Returned(legacy.val, f)
             ELSE IF ~modern.some THEN Aborted("panic_no_data_dir", f)
             ELSE ensure_exists_silently(f, modern.val)

installations_dir(c, e, f) ==
    LET base == base_dir_with_default(c, e, f) IN
    IF base.status # "ok" THEN base
    ELSE ensure_exists_silently(base.fs, join(base.ret, "node-versions"))

\* Mutant: the aliases path is joined but not created.
aliases_dir_no_create(c, e, f) ==
    LET base == base_dir_with_default(c, e, f) IN
    IF base.status # "ok" THEN base
    ELSE Returned(join(base.ret, "aliases"), base.fs)

aliases_dir(c, e, f) ==
    LET base == base_dir_with_default(c, e, f) IN
    IF base.status # "ok" THEN base
    ELSE ensure_exists_silently(base.fs, join(base.ret, "aliases"))

default_version_dir(c, e, f) ==
    LET aliases == aliases_dir(c, e, f) IN
    IF aliases.status # "ok" THEN aliases
    ELSE Returned(join(aliases.ret, "default"), aliases.fs)

(***************************************************************************)
(* One invocation making calls one after the other                         *)
(***************************************************************************)
NoCall == [op |-> "none", pre |-> <<>>, ret |-> NoPath, status |-> "none", post |-> <<>>]

Call(op, r) ==
    /\ ncalls < MaxCalls
    /\ last' = [op |-> op, pre |-> fs, ret |-> r.ret, status |-> r.status, post |-> r.fs]
    /\ prev' = last
    /\ fs' = r.fs
    /\ ncalls' = ncalls + 1
    /\ UNCHANGED <<cfg, ctor, env, procs, fs0>>

BaseDirWithDefault == Call("base_dir_with_default", base_dir_with_default(cfg, env, fs))

InstallationsDir == Call("installations_dir", installations_dir(cfg, env, fs))

AliasesDir == Call("aliases_dir", aliases_dir(cfg, env, fs))

DefaultVersionDir == Call("default_version_dir", default_version_dir(cfg, env, fs))

\* Something outside this invocation creates <home>/.fnm.
ExternalCreateLegacy ==
    /\ legacy_path(env).some
    /\ mkdir(fs, legacy_path(env).val).err = "ok"
    /\ fs' = mkdir(fs, legacy_path(env).val).fs
    /\ UNCHANGED <<cfg, ctor, env, last, prev, ncalls, procs, fs0>>

\* Starting filesystems: every well-formed tree in which the paths below
\* have one of the kinds listed and every other path is absent.
MkFs(legacy, data, share, modern, modernAliases, over, overAliases) ==
    [p \in AllPaths |->
        CASE p = HomePath -> "dir"
          [] p = join(HomePath, ".fnm") -> legacy
          [] p = <<"data">> -> data
          [] p = DataPath -> share
          [] p = join(DataPath, "fnm") -> modern
          [] p = join(join(DataPath, "fnm"), "aliases") -> modernAliases
          [] p = <<"tmp">> -> "dir"
          [] p = OverridePath -> over
          [] p = join(OverridePath, "aliases") -> overAliases
          [] OTHER -> "none"]

InitFs ==
    {f \in {MkFs(l, d, s, m, ma, o, oa) :
                l \in {"none", "dir", "file"},
                d \in {"none", "dir", "file"},
                s \in {"none", "dir", "dir_ro"},
                m \in {"none", "dir", "file"},
                ma \in {"none", "dir", "file"},
                o \in {"none", "dir", "dir_ro"},
                oa \in {"none", "dir"}} : WellFormed(f)}

Envs == [home : {None, Some(HomePath)}, data : {None, Some(DataPath)}]

InitConfig ==
    \/ ctor = "default" /\ cfg = FnmConfig_default
    \/ ctor = "with_base_dir" /\ cfg = with_base_dir(FnmConfig_default, Some(OverridePath))
    \/ ctor = "from_args" /\ \E a \in ArgChoices : cfg = FnmConfig_from_args(a)

Idle == [op |-> "none", pc |-> "idle", stage |-> "none", stack |-> <<>>,
         base |-> NoPath, ret |-> NoPath, status |-> "none"]

Init ==
    /\ InitConfig
    /\ env \in Envs
    /\ fs \in InitFs
    /\ last = NoCall
    /\ prev = NoCall
    /\ ncalls = 0
    /\ procs = [i \in 1..NProcs |-> Idle]
    /\ fs0 = fs

Next ==
    \/ BaseDirWithDefault
    \/ InstallationsDir
    \/ AliasesDir
    \/ DefaultVersionDir
    \/ ExternalCreateLegacy

Spec == Init /\ [][Next]_vars

(***************************************************************************)
(* Concurrent invocations: NProcs processes with the same configuration,   *)
(* each making one call, interleaved at the level of filesystem calls.     *)
(***************************************************************************)
Procs == 1..NProcs

\* The components each derived directory adds to the base directory.
SubdirOf(op) ==
    CASE op = "installations_dir" -> <<"node-versions">>
      [] op = "aliases_dir" -> <<"aliases">>
      [] op = "default_version_dir" -> <<"aliases", "default">>
      [] OTHER -> <<>>

DerivedOps == {"installations_dir", "aliases_dir", "default_version_dir"}

ConcOps == {"base_dir_with_default", "installations_dir", "aliases_dir"}

Frame(p, phase) == [path |-> p, phase |-> phase]

top(stack) == stack[Len(stack)]

pop(stack) == SubSeq(stack, 1, Len(stack) - 1)

set_phase(stack, phase) == [stack EXCEPT ![Len(stack)].phase = phase]

\* The base directory is resolved: base_dir_with_default returns it,
\* installations_dir and aliases_dir join their name and start creating.
after_base(proc, base) ==
    IF proc.op = "base_dir_with_default"
    THEN [proc EXCEPT !.pc = "done", !.base = base, !.ret = base, !.status = "ok"]
    ELSE [proc EXCEPT !.pc = "ensure", !.stage = "sub", !.base = base,
                      !.stack = <<Frame(base \o SubdirOf(proc.op), "mkdir")>>]

\* Mutant: the modern directory is returned without being created.
resolve_base_no_create(proc, c, e, f) ==
    IF c.base_dir.some THEN after_base(proc, c.base_dir.val)
    ELSE LET legacy == legacy_if_exists(e, f)
             modern == modern_path(e)
         IN  IF legacy.some THEN after_base(proc, legacy.val)
             ELSE IF ~modern.some
                 THEN [proc EXCEPT !.pc = "done", !.status = "panic_no_data_dir"]
             ELSE after_base(proc, modern.val)

\* base_dir_with_default up to its first creation step: the override, the
\* legacy directory if it exists now, or the start of creating the modern
\* directory.
resolve_base(proc, c, e, f) ==
    IF c.base_dir.some THEN after_base(proc, c.base_dir.val)
    ELSE LET legacy == legacy_if_exists(e, f)
             modern == modern_path(e)
         IN  IF legacy.some THEN after_base(proc, legacy.val)
             ELSE IF ~modern.some
                 THEN [proc EXCEPT !.pc = "done", !.status = "panic_no_data_dir"]
             ELSE [proc EXCEPT !.pc = "ensure", !.stage = "base",
                               !.stack = <<Frame(modern.val, "mkdir")>>]

\* The directory of the top frame is there: return to the frame below, or
\* finish the creation the process was in.
frame_done(proc) ==
    LET p == top(proc.stack).path IN
    IF Len(proc.stack) > 1 THEN [proc EXCEPT !.stack = pop(proc.stack)]
    ELSE IF proc.stage = "base" THEN after_base([proc EXCEPT !.stack = <<>>], p)
    ELSE [proc EXCEPT !.pc = "done", !.stack = <<>>, !.ret = p, !.status = "ok"]

\* One mkdir of create_dir_all: done on success, the parent first when a
\* component is missing, otherwise a look at what is at the path.
after_mkdir(proc, err) ==
    LET fr == top(proc.stack) IN
    IF err = "ok" THEN frame_done(proc)
    ELSE IF err = "ENOENT" /\ fr.phase = "mkdir"
        THEN [proc EXCEPT !.stack =
                 Append(set_phase(proc.stack, "retry"), Frame(parent(fr.path), "mkdir"))]
    ELSE [proc EXCEPT !.stack = set_phase(proc.stack, "is_dir")]

\* After a failed mkdir: an existing directory is success, anything else is
\* fatal.
after_is_dir(proc, isDir) ==
    IF isDir THEN frame_done(proc)
    ELSE [proc EXCEPT !.pc = "done", !.stack = <<>>, !.status = "fatal_create"]

Resolve(i) ==
    /\ procs[i].pc = "start"
    /\ procs' = [procs EXCEPT ![i] = resolve_base(procs[i], cfg, env, fs)]
    /\ UNCHANGED <<cfg, ctor, env, fs, last, prev, ncalls, fs0>>

Mkdir(i) ==
    /\ procs[i].pc = "ensure"
    /\ top(procs[i].stack).phase \in {"mkdir", "retry"}
    /\ LET r == mkdir(fs, top(procs[i].stack).path) IN
         /\ fs' = r.fs
         /\ procs' = [procs EXCEPT ![i] = after_mkdir(procs[i], r.err)]
    /\ UNCHANGED <<cfg, ctor, env, last, prev, ncalls, fs0>>

IsDir(i) ==
    /\ procs[i].pc = "ensure"
    /\ top(procs[i].stack).phase = "is_dir"
    /\ procs' = [procs EXCEPT ![i] =
                    after_is_dir(procs[i], is_dir(fs, top(procs[i].stack).path))]
    /\ UNCHANGED <<cfg, ctor, env, fs, last, prev, ncalls, fs0>>

Started(op) == [Idle EXCEPT !.op = op, !.pc = "start"]

InitFsConc ==
    {f \in {MkFs(l, d, s, m, "none", o, "none") :
                l \in {"none", "dir"},
                d \in {"none", "dir"},
                s \in {"none", "dir"},
                m \in {"none", "dir", "file"},
                o \in {"none", "dir"}} : WellFormed(f)}

InitConc ==
    /\ \/ ctor = "default" /\ cfg = FnmConfig_default
       \/ ctor = "with_base_dir" /\ cfg = with_base_dir(FnmConfig_default, Some(OverridePath))
    /\ env \in Envs
    /\ fs \in InitFsConc
    /\ last = NoCall
    /\ prev = NoCall
    /\ ncalls = 0
    /\ procs \in [Procs -> {Started(op) : op \in ConcOps}]
    /\ fs0 = fs

NextConc ==
    \/ \E i \in Procs : Resolve(i)
    \/ \E i \in Procs : Mkdir(i)
    \/ \E i \in Procs : IsDir(i)

SpecConc == InitConc /\ [][NextConc]_vars

(***************************************************************************)
(* Properties of the sequential invocation                                 *)
(***************************************************************************)
IsCall(call, op) == call.op = op

NoOverride == ~cfg.base_dir.some

LegacyExistsIn(f) == legacy_path(env).some /\ exists(f, legacy_path(env).val)

\* The deepest existing prefix of p.
deepest_existing(f, p) ==
    LET n == CHOOSE k \in 0..Len(p) :
                 /\ exists(f, SubSeq(p, 1, k))
                 /\ \A m \in (k + 1)..Len(p) : ~exists(f, SubSeq(p, 1, m))
    IN  SubSeq(p, 1, n)

\* p is a directory, or is absent below a writable directory.
Creatable(f, p) ==
    \/ is_dir(f, p)
    \/ /\ ~exists(f, p)
       /\ kind(f, deepest_existing(f, p)) = "dir"

\* The latest call took the modern branch of base_dir_with_default.
ModernBranch(call) ==
    /\ NoOverride
    /\ ~LegacyExistsIn(call.pre)
    /\ modern_path(env).some

\* C1: with an override set, base_dir_with_default returns exactly the
\* override, whatever the filesystem and the home/data directories are, and
\* leaves the filesystem as it was (no check, no creation).
C1_OverrideReturnedUnchanged ==
    (IsCall(last, "base_dir_with_default") /\ cfg.base_dir.some) =>
        /\ last.status = "ok"
        /\ last.ret = cfg.base_dir.val
        /\ last.post = last.pre

C1_Witness ==
    /\ IsCall(last, "base_dir_with_default")
    /\ cfg.base_dir.some
    /\ ~exists(last.pre, cfg.base_dir.val)
    /\ LegacyExistsIn(last.pre)
    /\ last.ret = cfg.base_dir.val
    /\ ~exists(last.post, cfg.base_dir.val)

\* C2: with no override and <home>/.fnm existing at the time of the call,
\* base_dir_with_default returns the legacy directory, also when <data>/fnm
\* exists, and creates nothing.
C2_LegacyWins ==
    (IsCall(last, "base_dir_with_default") /\ NoOverride /\ LegacyExistsIn(last.pre)) =>
        /\ last.status = "ok"
        /\ last.ret = legacy_path(env).val
        /\ last.post = last.pre

C2_Witness ==
    /\ IsCall(last, "base_dir_with_default")
    /\ NoOverride
    /\ LegacyExistsIn(last.pre)
    /\ modern_path(env).some
    /\ is_dir(last.pre, modern_path(env).val)
    /\ last.ret = legacy_path(env).val

\* C3: with no override, no legacy directory and a determinable data
\* directory, base_dir_with_default returns <data>/fnm, which exists when the
\* call returns (created with its missing parents; the call returns whenever
\* the directory can be created); a second call right after returns the same
\* path, does not fail and leaves the filesystem as the first call left it.
C3_ModernCreatedAndStable ==
    /\ (IsCall(last, "base_dir_with_default") /\ ModernBranch(last)) =>
          /\ last.status # "panic_no_data_dir"
          /\ Creatable(last.pre, modern_path(env).val) => last.status = "ok"
          /\ last.status = "ok" =>
                /\ last.ret = modern_path(env).val
                /\ is_dir(last.post, modern_path(env).val)
    /\ ( /\ IsCall(prev, "base_dir_with_default")
         /\ ModernBranch(prev)
         /\ prev.status = "ok"
         /\ IsCall(last, "base_dir_with_default")
         /\ last.pre = prev.post ) =>
          /\ last.status = "ok"
          /\ last.ret = prev.ret
          /\ last.post = last.pre

C3_Witness ==
    /\ IsCall(prev, "base_dir_with_default")
    /\ ModernBranch(prev)
    /\ ~exists(prev.pre, parent(modern_path(env).val))
    /\ prev.status = "ok"
    /\ is_dir(prev.post, prev.ret)
    /\ IsCall(last, "base_dir_with_default")
    /\ last.pre = prev.post
    /\ last.ret = prev.ret

\* The base directory as resolved at the start of the latest call.
BaseAtCall(call) == base_dir_with_default(cfg, env, call.pre)

\* C4 as stated: each of installations_dir, aliases_dir and
\* default_version_dir returns base/node-versions, base/aliases,
\* base/aliases/default, and the directory at the returned path exists right
\* after the call.
C4_DerivedDirsExist ==
    (last.op \in DerivedOps /\ last.status = "ok") =>
        /\ last.ret = BaseAtCall(last).ret \o SubdirOf(last.op)
        /\ starts_with(last.ret, BaseAtCall(last).ret)
        /\ is_dir(last.post, last.ret)

\* C4 amended: the three return the paths nested under the base directory;
\* installations_dir and aliases_dir leave a directory at the returned path,
\* also when it was absent; default_version_dir leaves the aliases directory
\* existing and does not touch base/aliases/default itself.
C4_DerivedDirsAmended ==
    (last.op \in DerivedOps /\ last.status = "ok") =>
        /\ last.ret = BaseAtCall(last).ret \o SubdirOf(last.op)
        /\ starts_with(last.ret, BaseAtCall(last).ret)
        /\ last.op \in {"installations_dir", "aliases_dir"} =>
              is_dir(last.post, last.ret)
        /\ last.op = "default_version_dir" =>
              /\ is_dir(last.post, parent(last.ret))
              /\ kind(last.post, last.ret) = kind(last.pre, last.ret)

C4_Witness ==
    /\ IsCall(last, "default_version_dir")
    /\ last.status = "ok"
    /\ ~exists(last.pre, parent(last.ret))
    /\ is_dir(last.post, parent(last.ret))
    /\ ~exists(last.post, last.ret)

\* C5: FnmConfig::default() has the mirror https://nodejs.org/dist, equal to
\* the one parsed from the compiled-in default_value, log level Info,
\* version-file strategy Local and no base-directory override.
C5_DefaultConfig ==
    ctor = "default" =>
        /\ cfg.node_dist_mirror = Url_parse(MirrorDefaultValue)
        /\ Url_as_str(cfg.node_dist_mirror) = MirrorDefaultValue
        /\ cfg.node_dist_mirror = FnmConfig_from_args(NoArgs).node_dist_mirror
        /\ cfg.log_level = "Info"
        /\ cfg.version_file_strategy = "Local"
        /\ cfg.base_dir = None

\* C6: with no override, no home directory and no data directory,
\* base_dir_with_default aborts on the data-directory expectation: no path
\* is returned and nothing is created.
C6_UnresolvableRootIsFatal ==
    ( /\ IsCall(last, "base_dir_with_default")
      /\ NoOverride
      /\ ~home_dir(env).some
      /\ ~data_dir(env).some ) =>
        /\ last.status = "panic_no_data_dir"
        /\ last.ret = NoPath
        /\ last.post = last.pre

C6_Witness ==
    /\ IsCall(last, "base_dir_with_default")
    /\ NoOverride
    /\ ~home_dir(env).some
    /\ ~data_dir(env).some
    /\ last.status = "panic_no_data_dir"

\* The directory the latest call has to create last, once its base
\* directory is resolved.
CreationTarget(call) ==
    IF IsCall(call, "base_dir_with_default") THEN modern_path(env).val
    ELSE BaseAtCall(call).ret \o SubdirOf(call.op)

\* C7: when a directory cannot be created for a reason other than its
\* existing already, base_dir_with_default (modern branch), installations_dir
\* and aliases_dir are fatal: no path is returned, and a returned path is
\* always an existing directory.
C7_CreationFailureIsFatal ==
    ( \/ IsCall(last, "base_dir_with_default") /\ ModernBranch(last)
      \/ last.op \in {"installations_dir", "aliases_dir"} ) =>
        /\ last.status = "ok" => is_dir(last.post, last.ret)
        /\ BaseAtCall(last).status = "fatal_create" =>
              /\ last.status = "fatal_create"
              /\ last.ret = NoPath
        /\ ( /\ BaseAtCall(last).status = "ok"
             /\ ~is_dir(last.post, CreationTarget(last)) ) =>
                /\ last.status = "fatal_create"
                /\ last.ret = NoPath

C7_Witness ==
    /\ IsCall(last, "installations_dir")
    /\ is_dir(last.pre, BaseAtCall(last).ret)
    /\ kind(last.pre, BaseAtCall(last).ret) = "dir_ro"
    /\ ~exists(last.post, CreationTarget(last))
    /\ last.status = "fatal_create"

\* C9: nothing is cached between calls: with no override, after a call that
\* resolved the modern directory, once <home>/.fnm exists the next call
\* resolves the legacy directory, so the paths returned on either side lie
\* under different base directories.
C9_ResolvedOnEveryCall ==
    ( /\ NoOverride
      /\ prev.status = "ok"
      /\ modern_path(env).some
      /\ base_of(prev) = modern_path(env).val
      /\ LegacyExistsIn(last.pre)
      /\ last.op # "none" ) =>
        /\ IsCall(last, "base_dir_with_default") => last.status = "ok"
        /\ last.status = "ok" =>
              /\ base_of(last) = legacy_path(env).val
              /\ base_of(last) # base_of(prev)
              /\ last.ret = base_of(last) \o SubdirOf(last.op)

C9_Witness ==
    /\ NoOverride
    /\ IsCall(prev, "installations_dir")
    /\ prev.status = "ok"
    /\ prev.ret = join(modern_path(env).val, "node-versions")
    /\ IsCall(last, "installations_dir")
    /\ last.status = "ok"
    /\ last.ret = join(legacy_path(env).val, "node-versions")

\* C10: with no override, base_dir_with_default aborts on the
\* data-directory expectation exactly when the data directory is unknown and
\* <home>/.fnm does not exist at the call: also when the home directory is
\* known (the legacy path is not created), and not when <home>/.fnm exists.
C10_AbortExactlyWithoutDataAndLegacy ==
    (IsCall(last, "base_dir_with_default") /\ NoOverride) =>
        /\ last.status = "panic_no_data_dir" <=>
              (~data_dir(env).some /\ ~LegacyExistsIn(last.pre))
        /\ last.status = "panic_no_data_dir" =>
              /\ last.ret = NoPath
              /\ last.post = last.pre
        /\ (~data_dir(env).some /\ LegacyExistsIn(last.pre)) =>
              /\ last.status = "ok"
              /\ last.ret = legacy_path(env).val

C10_Witness ==
    /\ IsCall(last, "base_dir_with_default")
    /\ NoOverride
    /\ home_dir(env).some
    /\ ~data_dir(env).some
    /\ ~exists(last.pre, legacy_path(env).val)
    /\ last.status = "panic_no_data_dir"
    /\ ~exists(last.post, legacy_path(env).val)

(***************************************************************************)
(* Properties of concurrent invocations                                    *)
(***************************************************************************)
\* What the call of process i returns when it runs alone from the start.
Alone(i) ==
    CASE procs[i].op = "base_dir_with_default" -> base_dir_with_default(cfg, env, fs0)
      [] procs[i].op = "installations_dir" -> installations_dir(cfg, env, fs0)
      [] procs[i].op = "aliases_dir" -> aliases_dir(cfg, env, fs0)

\* C8: concurrent invocations with the same configuration: under every
\* interleaving of their existence checks and creation steps, a call that
\* succeeds when run alone completes without error, returns the path it
\* returns alone, and the directory it returns exists from then on (a
\* directory found already created by another invocation is success).
C8_ConcurrentCallsAgree ==
    \A i \in Procs :
        (procs[i].pc = "done" /\ Alone(i).status = "ok") =>
            /\ procs[i].status = "ok"
            /\ procs[i].ret = Alone(i).ret
            /\ (procs[i].op # "base_dir_with_default" \/ ModernBranch([pre |-> fs0]))
                  => is_dir(fs, procs[i].ret)

\* Two installations_dir calls race on an absent modern directory: the
\* first has returned; the second, whose earlier mkdir found a parent
\* missing, now finds that parent made by the first.
C8_Witness ==
    /\ procs[1].op = "installations_dir"
    /\ procs[2].op = "installations_dir"
    /\ ModernBranch([pre |-> fs0])
    /\ ~exists(fs0, modern_path(env).val)
    /\ procs[1].pc = "done"
    /\ procs[1].status = "ok"
    /\ procs[1].ret = join(modern_path(env).val, "node-versions")
    /\ is_dir(fs, procs[1].ret)
    /\ procs[2].pc = "ensure"
    /\ Len(procs[2].stack) > 1
    /\ top(procs[2].stack).phase = "is_dir"

====
